---- MODULE Spec2Model ----
(***************************************************************************)
(* The offline-asset caching agent of Checkmate GP (src/sw.js): a service  *)
(* worker with an install, an activate and a fetch listener over the       *)
(* platform's cache storage.                                               *)
(*                                                                         *)
(* Cache storage is an ordered map from generation name to cache (the      *)
(* order is the order of creation, which caches.match follows); a cache    *)
(* maps a request URL to a response.  Every promise callback of the        *)
(* listeners is one action; the fire-and-forget cache write of the fetch   *)
(* listener is an action of its own, because nothing awaits it.            *)
(***************************************************************************)
EXTENDS Integers, Sequences, FiniteSets, TLC

\* ------------------------------------------------------------------ bounds
\* Fetch events dispatched over the life of the agent (each has its own handler).
MaxInFlight == 2
\* Distinct bodies the network can serve for one URL (its content changes over time).
MaxBody == 2

\* --------------------------------------------------------------- constants
CACHE_NAME == "checkmate-gp-v1"

\* The manifest, each entry a relative URL split into tokens.
ASSETS ==
  << <<"./">>,
     <<"./", "index", ".html">>,
     <<"./", "manifest", ".json">>,
     <<"./", "icons/", "icon-192", ".png">>,
     <<"./", "icons/", "icon-512", ".png">>,
     <<"./", "icons/", "apple-touch-icon", ".png">> >>

\* location.origin of the agent, and an origin that is not the agent's.
SelfOrigin == "https://checkmate-gp.example"
ForeignOrigin == "https://api.openai.com"

\* Generations other than the current one that earlier versions may have left.
StaleNames == {"checkmate-gp-v0", "checkmate-gp-beta"}
GenNames == {CACHE_NAME} \cup StaleNames

\* -------------------------------------------------------------------- URLs
\* new URL(rel, base): the agent's script sits at the root of its scope, so "./"
\* resolves to the path "/" of the agent's own origin.
ResolveURL(rel) ==
  [origin |-> SelfOrigin, path |-> <<"/">> \o Tail(rel)]

ManifestKeys == {ResolveURL(ASSETS[i]) : i \in 1..Len(ASSETS)}

\* Same-origin URLs of the application that the manifest does not list.
AppJsURL == [origin |-> SelfOrigin, path |-> <<"/", "app", ".js">>]
AboutURL == [origin |-> SelfOrigin, path |-> <<"/", "about", ".html">>]
ApiURL == [origin |-> ForeignOrigin, path |-> <<"/", "v1/", "chat">>]

Keys == ManifestKeys \cup {AppJsURL, AboutURL}

\* url.pathname.endsWith('.html')
EndsWithHtml(path) == path[Len(path)] = ".html"

\* --------------------------------------------------------------- responses
Bodies == 1..MaxBody
\* Body of an entry that was in cache storage before this agent was installed.
PreBody == 0

Response(u, ok, b) == [kind |-> "response", url |-> u, ok |-> ok, body |-> b]
\* No entry / the value undefined.
Undefined == [kind |-> "undefined"]
\* A rejected promise (a network error).
Rejected == [kind |-> "rejected"]
\* A promise that has not settled yet.
Pending == [kind |-> "pending"]

IsResponse(r) == r.kind = "response"

\* What the network can answer to a request for u: a response of any status.
NetworkResponses(u) == {Response(u, ok, b) : ok \in BOOLEAN, b \in Bodies}

\* ----------------------------------------------------------- cache storage
EmptyCache == [k \in Keys |-> Undefined]

CacheStorageKeys(cs) == [i \in 1..Len(cs) |-> cs[i].name]

CacheStorageHas(cs, name) == \E i \in 1..Len(cs) : cs[i].name = name

\* caches.open(name): the cache of that name, created last in order when absent.
CacheStorageOpen(cs, name) ==
  IF CacheStorageHas(cs, name) THEN cs
  ELSE Append(cs, [name |-> name, entries |-> EmptyCache])

\* caches.delete(name)
IsNotNamed(c, name) == c.name # name
CacheStorageDelete(cs, name) ==
  LET Keep(c) == IsNotNamed(c, name) IN SelectSeq(cs, Keep)

\* The entries of the cache called name (no entries when there is no such cache).
CacheEntries(cs, name) ==
  IF CacheStorageHas(cs, name)
  THEN (CHOOSE c \in {cs[i] : i \in 1..Len(cs)} : c.name = name).entries
  ELSE EmptyCache

\* cache.match(url) on one cache
CacheMatch(entries, u) == IF u \in Keys THEN entries[u] ELSE Undefined

\* caches.match(request): the first match over all caches, in order of creation.
RECURSIVE CacheStorageMatchFrom(_, _, _)
CacheStorageMatchFrom(cs, u, i) ==
  IF i > Len(cs) THEN Undefined
  ELSE IF IsResponse(CacheMatch(cs[i].entries, u)) THEN CacheMatch(cs[i].entries, u)
  ELSE CacheStorageMatchFrom(cs, u, i + 1)

CacheStorageMatch(cs, u) == CacheStorageMatchFrom(cs, u, 1)

\* Mutant of CachePut: the entry is stored under the URL of the scope, not under the
\* URL of the request.
CachePut_UnderRoot(cs, name, u, r) ==
  [i \in 1..Len(cs) |->
     IF cs[i].name = name
     THEN [cs[i] EXCEPT !.entries = [@ EXCEPT ![ [origin |-> u.origin, path |-> <<"/">>] ] = r]]
     ELSE cs[i]]

\* cache.put(request, response) on the cache called name: overwrites the entry.
CachePut(cs, name, u, r) ==
  [i \in 1..Len(cs) |->
     IF cs[i].name = name
     THEN [cs[i] EXCEPT !.entries = [@ EXCEPT ![u] = r]]
     ELSE cs[i]]

\* Mutant of CachePutAll: only the first response of the batch is stored (cache.add
\* of one asset instead of cache.addAll of the list).
CachePutAll_OnlyRoot(cs, name, rs) ==
  [i \in 1..Len(cs) |->
     IF cs[i].name = name
     THEN [cs[i] EXCEPT !.entries =
             [k \in Keys |-> IF k.path = <<"/">> /\ \E r \in rs : r.url = k
                             THEN CHOOSE r \in rs : r.url = k
                             ELSE @[k]]]
     ELSE cs[i]]

\* Mutant of CachePutAll: the response of the first asset is stored under a URL
\* that is not the one it was requested with, a key outside the manifest.
CachePutAll_ShiftedKeys(cs, name, rs) ==
  [i \in 1..Len(cs) |->
     IF cs[i].name = name
     THEN [cs[i] EXCEPT !.entries =
             [k \in Keys |-> IF k.path = <<"/", "about", ".html">>
                             THEN CHOOSE r \in rs : r.url.path = <<"/">>
                             ELSE IF \E r \in rs : r.url = k /\ k.path # <<"/">>
                             THEN CHOOSE r \in rs : r.url = k
                             ELSE @[k]]]
     ELSE cs[i]]

\* The batch of puts that ends cache.addAll: every entry of rs, atomically.
CachePutAll(cs, name, rs) ==
  [i \in 1..Len(cs) |->
     IF cs[i].name = name
     THEN [cs[i] EXCEPT !.entries =
             [k \in Keys |-> IF \E r \in rs : r.url = k
                             THEN CHOOSE r \in rs : r.url = k
                             ELSE @[k]]]
     ELSE cs[i]]

\* ---------------------------------------------------------------- requests
RootURL == ResolveURL(ASSETS[1])
IndexURL == ResolveURL(ASSETS[2])
IconURL == ResolveURL(ASSETS[4])

Request(m, u, mode) == [method |-> m, url |-> u, mode |-> mode]

\* The requests the controlled pages make.
Requests ==
  { Request("GET", RootURL, "navigate"),
    Request("GET", IndexURL, "cors"),
    Request("GET", AboutURL, "cors"),
    Request("GET", IconURL, "no-cors"),
    Request("GET", AppJsURL, "no-cors"),
    Request("POST", IndexURL, "cors"),
    Request("GET", ApiURL, "cors") }

NoRequest == Request("-", RootURL, "-")

\* Mutant of Bypass: the origin check is missing.
Bypass_NoOriginCheck(req) == req.method # "GET"

\* The two early returns of the fetch listener.
Bypass(req) == req.method # "GET" \/ req.url.origin # SelfOrigin

\* The condition of the network-first branch.
NetworkFirst(req) == req.mode = "navigate" \/ EndsWithHtml(req.url.path)

\* ------------------------------------------------------------------- state
VARIABLES
  phase,              \* where the agent is in its lifecycle and in its listeners
  caches,             \* cache storage: the caches in order of creation
  addAllResults,      \* what each fetch of cache.addAll came back with
  skipWaitingCalled,  \* self.skipWaiting() has been called
  claimCalled,        \* self.clients.claim() has been called
  toDelete,           \* generations whose caches.delete is still in flight
  deleted,            \* generations whose caches.delete has settled (Promise.all's results)
  handlers            \* one record per fetch event

vars ==
  <<phase, caches, addAllResults, skipWaitingCalled, claimCalled, toDelete, deleted, handlers>>

Slots == 1..MaxInFlight
Assets == 1..Len(ASSETS)

\* The result of a fetch event whose listener returned without respondWith.
NotIntercepted == [kind |-> "not_intercepted"]

IdleHandler ==
  [pc |-> "idle", req |-> NoRequest, responded |-> FALSE, result |-> Pending,
   net |-> "none", put |-> Undefined, netCalls |-> 0, reads |-> 0, writes |-> 0,
   behind |-> FALSE]

\* ------------------------------------------------- cache storage at the start
\* Entries an earlier version of the application left behind.
LeftoverCache ==
  [k \in Keys |-> IF k \in {IndexURL, AppJsURL} THEN Response(k, TRUE, PreBody)
                  ELSE Undefined]

\* A generation that an earlier install of the same manifest filled.
PopulatedCache ==
  [k \in Keys |-> IF k \in ManifestKeys THEN Response(k, TRUE, PreBody)
                  ELSE Undefined]

Orderings ==
  {s \in UNION {[1..n -> GenNames] : n \in 0..Cardinality(GenNames)} :
     \A i, j \in DOMAIN s : i # j => s[i] # s[j]}

InitialEntries(name) ==
  IF name = CACHE_NAME THEN {EmptyCache, LeftoverCache, PopulatedCache}
  ELSE {LeftoverCache}

InitialCaches ==
  UNION { {cs \in [DOMAIN s -> [name : GenNames, entries : {EmptyCache, LeftoverCache, PopulatedCache}]] :
             \A i \in DOMAIN s : cs[i].name = s[i] /\ cs[i].entries \in InitialEntries(s[i])}
          : s \in Orderings }

Init ==
  /\ phase = "install_open"
  /\ caches \in InitialCaches
  /\ addAllResults = [i \in Assets |-> "pending"]
  /\ skipWaitingCalled = FALSE
  /\ claimCalled = FALSE
  /\ toDelete = {}
  /\ deleted = {}
  /\ handlers = [h \in Slots |-> IdleHandler]

\* ----------------------------------------------------------------- install
FetchOutcomes == {"ok", "http_error", "network_error"}

\* Mutant of AddAllResolves: a response with an error status counts as fetched.
AddAllResolves_IgnoresStatus(results) == \A i \in 1..Len(ASSETS) : results[i] # "network_error"

\* cache.addAll resolves when every request came back with an ok response.
AddAllResolves(results) == \A i \in Assets : results[i] = "ok"

\* The responses cache.addAll stores, the assets being served from one deployment.
AddAllResponses(b) == {Response(ResolveURL(ASSETS[i]), TRUE, b) : i \in Assets}

\* Mutant of InstallOpen: skipWaiting is called at the top of the listener, outside
\* the promise chain.
InstallOpen_SkipsWaitingFirst ==
  /\ phase = "install_open"
  /\ caches' = CacheStorageOpen(caches, CACHE_NAME)
  /\ skipWaitingCalled' = TRUE
  /\ phase' = "install_addAll"
  /\ UNCHANGED <<addAllResults, claimCalled, toDelete, deleted, handlers>>

\* caches.open(CACHE_NAME)
InstallOpen ==
  /\ phase = "install_open"
  /\ caches' = CacheStorageOpen(caches, CACHE_NAME)
  /\ phase' = "install_addAll"
  /\ UNCHANGED <<addAllResults, skipWaitingCalled, claimCalled, toDelete, deleted, handlers>>

\* .then(cache => cache.addAll(ASSETS)): all fetched, then all stored, or a rejection
\* that skips the next .then and fails the install.
InstallAddAll ==
  /\ phase = "install_addAll"
  /\ \E results \in [Assets -> FetchOutcomes], b \in Bodies :
       /\ addAllResults' = results
       /\ IF AddAllResolves(results)
          THEN /\ caches' = CachePutAll(caches, CACHE_NAME, AddAllResponses(b))
               /\ phase' = "install_skipWaiting"
          ELSE /\ caches' = caches
               /\ phase' = "redundant"
  /\ UNCHANGED <<skipWaitingCalled, claimCalled, toDelete, deleted, handlers>>

\* .then(() => self.skipWaiting()), after which the install event completes.
InstallSkipWaiting ==
  /\ phase = "install_skipWaiting"
  /\ skipWaitingCalled' = TRUE
  /\ phase' = "installed"
  /\ UNCHANGED <<caches, addAllResults, claimCalled, toDelete, deleted, handlers>>

\* ---------------------------------------------------------------- activate
\* Mutant of StaleKeys: only the generations named like a version are stale.
StaleKeys_VersionedOnly(keys) ==
  {keys[i] : i \in {j \in DOMAIN keys : keys[j] = "checkmate-gp-v0"}}

\* Mutant of StaleKeys: the filter keeps every key, the current one included.
StaleKeys_All(keys) == {keys[i] : i \in DOMAIN keys}

\* keys.filter(k => k !== CACHE_NAME)
StaleKeys(keys) == {keys[i] : i \in {j \in DOMAIN keys : keys[j] # CACHE_NAME}}

\* caches.keys().then(keys => ... .map(k => caches.delete(k))): the deletes start.
ActivateKeys ==
  /\ phase = "installed"
  /\ toDelete' = StaleKeys(CacheStorageKeys(caches))
  /\ phase' = "activating"
  /\ UNCHANGED <<caches, addAllResults, skipWaitingCalled, claimCalled, deleted, handlers>>

\* One caches.delete(k) of the Promise.all completes.
ActivateDelete(k) ==
  /\ phase = "activating"
  /\ k \in toDelete
  /\ caches' = CacheStorageDelete(caches, k)
  /\ toDelete' = toDelete \ {k}
  /\ deleted' = deleted \cup {k}
  /\ UNCHANGED <<phase, addAllResults, skipWaitingCalled, claimCalled, handlers>>

\* Mutant of ActivateClaim: the deletes are not awaited (no Promise.all is returned
\* to the chain), so the claim does not wait for them.
ActivateClaim_NotAwaiting ==
  /\ phase = "activating"
  /\ claimCalled' = TRUE
  /\ deleted' = {}
  /\ phase' = "activated"
  /\ UNCHANGED <<caches, addAllResults, skipWaitingCalled, toDelete, handlers>>

\* .then(() => self.clients.claim()), after which the activate event completes.
ActivateClaim ==
  /\ phase = "activating"
  /\ toDelete = {}
  /\ claimCalled' = TRUE
  /\ deleted' = {}
  /\ phase' = "activated"
  /\ UNCHANGED <<caches, addAllResults, skipWaitingCalled, toDelete, handlers>>

\* ------------------------------------------------------------------- fetch
\* An earlier event for URL u has been answered from the network and the cache
\* write it started has not been carried out yet.
WritePending(u) ==
  \E g \in Slots :
    handlers[g].pc = "done" /\ handlers[g].req.url = u /\ IsResponse(handlers[g].put)

\* The fetch listener itself: it runs synchronously when the event is dispatched
\* (behind records whether an event that starts with a cache lookup came after such
\* an answer).
Dispatch(h) ==
  /\ phase = "activated"
  /\ handlers[h].pc = "idle"
  /\ \A j \in 1..(h - 1) : handlers[j].pc # "idle"
  /\ \E req \in Requests :
       handlers' = [handlers EXCEPT ![h] =
         IF Bypass(req)
         THEN [@ EXCEPT !.pc = "done", !.req = req, !.result = NotIntercepted]
         ELSE IF NetworkFirst(req)
         THEN [@ EXCEPT !.pc = "nf_fetch", !.req = req, !.responded = TRUE,
                        !.net = "pending", !.netCalls = @ + 1]
         ELSE [@ EXCEPT !.pc = "cf_match", !.req = req, !.responded = TRUE,
                        !.reads = @ + 1, !.behind = WritePending(req.url)]]
  /\ UNCHANGED <<phase, caches, addAllResults, skipWaitingCalled, claimCalled, toDelete, deleted>>

\* fetch(e.request).then(res => ...): the clone is handed to a cache write nobody
\* awaits, and res is the response of the event.
NfFetchOk(h) ==
  /\ handlers[h].pc = "nf_fetch"
  /\ \E res \in NetworkResponses(handlers[h].req.url) :
       handlers' = [handlers EXCEPT ![h] =
         [@ EXCEPT !.pc = "done", !.net = "response", !.result = res, !.put = res]]
  /\ UNCHANGED <<phase, caches, addAllResults, skipWaitingCalled, claimCalled, toDelete, deleted>>

\* fetch(e.request) rejects: .catch(() => caches.match(e.request)) starts the lookup.
NfFetchFail(h) ==
  /\ handlers[h].pc = "nf_fetch"
  /\ handlers' = [handlers EXCEPT ![h] = [@ EXCEPT !.pc = "nf_match", !.net = "error", !.reads = @ + 1]]
  /\ UNCHANGED <<phase, caches, addAllResults, skipWaitingCalled, claimCalled, toDelete, deleted>>

\* Mutant of NfMatch: the catch branch has no cache fallback and rejects.
NfMatch_NoFallback(h) ==
  /\ handlers[h].pc = "nf_match"
  /\ handlers' = [handlers EXCEPT ![h] = [@ EXCEPT !.pc = "done", !.result = Rejected]]
  /\ UNCHANGED <<phase, caches, addAllResults, skipWaitingCalled, claimCalled, toDelete, deleted>>

\* Mutant of NfMatch: on a miss the catch branch fetches from the network again.
NfMatch_Retry(h) ==
  /\ handlers[h].pc = "nf_match"
  /\ LET cached == CacheStorageMatch(caches, handlers[h].req.url) IN
       \E res \in NetworkResponses(handlers[h].req.url) :
         handlers' = [handlers EXCEPT ![h] =
           IF IsResponse(cached)
           THEN [@ EXCEPT !.pc = "done", !.result = cached]
           ELSE [@ EXCEPT !.pc = "done", !.result = res, !.netCalls = @ + 1]]
  /\ UNCHANGED <<phase, caches, addAllResults, skipWaitingCalled, claimCalled, toDelete, deleted>>

\* The lookup of the catch branch settles: its value, a response or undefined, is
\* what respondWith receives.
NfMatch(h) ==
  /\ handlers[h].pc = "nf_match"
  /\ handlers' = [handlers EXCEPT ![h] =
       [@ EXCEPT !.pc = "done",
                 !.result = CacheStorageMatch(caches, handlers[h].req.url)]]
  /\ UNCHANGED <<phase, caches, addAllResults, skipWaitingCalled, claimCalled, toDelete, deleted>>

\* Mutant of CfMatch: a hit is returned and revalidated from the network as well.
CfMatch_Revalidate(h) ==
  /\ handlers[h].pc = "cf_match"
  /\ LET cached == CacheStorageMatch(caches, handlers[h].req.url) IN
       handlers' = [handlers EXCEPT ![h] =
         IF IsResponse(cached)
         THEN [@ EXCEPT !.pc = "done", !.result = cached, !.net = "pending",
                        !.netCalls = @ + 1]
         ELSE [@ EXCEPT !.pc = "cf_fetch", !.net = "pending", !.netCalls = @ + 1]]
  /\ UNCHANGED <<phase, caches, addAllResults, skipWaitingCalled, claimCalled, toDelete, deleted>>

\* caches.match(e.request).then(cached => ...): a hit is returned, a miss starts
\* the network fetch.
CfMatch(h) ==
  /\ handlers[h].pc = "cf_match"
  /\ LET cached == CacheStorageMatch(caches, handlers[h].req.url) IN
       handlers' = [handlers EXCEPT ![h] =
         IF IsResponse(cached)
         THEN [@ EXCEPT !.pc = "done", !.result = cached]
         ELSE [@ EXCEPT !.pc = "cf_fetch", !.net = "pending", !.netCalls = @ + 1]]
  /\ UNCHANGED <<phase, caches, addAllResults, skipWaitingCalled, claimCalled, toDelete, deleted>>

\* Mutant of CfFetchOk: a copy is stored only when the response is ok.
CfFetchOk_ChecksStatus(h) ==
  /\ handlers[h].pc = "cf_fetch"
  /\ \E res \in NetworkResponses(handlers[h].req.url) :
       handlers' = [handlers EXCEPT ![h] =
         [@ EXCEPT !.pc = "done", !.net = "response", !.result = res,
                   !.put = IF res.ok THEN res ELSE Undefined]]
  /\ UNCHANGED <<phase, caches, addAllResults, skipWaitingCalled, claimCalled, toDelete, deleted>>

\* Mutant of CfFetchOk: the response is returned without a copy being stored.
CfFetchOk_NoWrite(h) ==
  /\ handlers[h].pc = "cf_fetch"
  /\ \E res \in NetworkResponses(handlers[h].req.url) :
       handlers' = [handlers EXCEPT ![h] =
         [@ EXCEPT !.pc = "done", !.net = "response", !.result = res]]
  /\ UNCHANGED <<phase, caches, addAllResults, skipWaitingCalled, claimCalled, toDelete, deleted>>

\* Mutant of CfFetchOk: the cache write is awaited before the response is returned.
CfFetchOk_AwaitsPut(h) ==
  /\ handlers[h].pc = "cf_fetch"
  /\ \E res \in NetworkResponses(handlers[h].req.url) :
       /\ handlers' = [handlers EXCEPT ![h] =
            [@ EXCEPT !.pc = "done", !.net = "response", !.result = res,
                      !.writes = @ + 1]]
       /\ caches' = CachePut(CacheStorageOpen(caches, CACHE_NAME), CACHE_NAME,
                             handlers[h].req.url, res)
  /\ UNCHANGED <<phase, addAllResults, skipWaitingCalled, claimCalled, toDelete, deleted>>

\* fetch(e.request).then(res => ...) of the miss branch.
CfFetchOk(h) ==
  /\ handlers[h].pc = "cf_fetch"
  /\ \E res \in NetworkResponses(handlers[h].req.url) :
       handlers' = [handlers EXCEPT ![h] =
         [@ EXCEPT !.pc = "done", !.net = "response", !.result = res, !.put = res]]
  /\ UNCHANGED <<phase, caches, addAllResults, skipWaitingCalled, claimCalled, toDelete, deleted>>

\* Mutant of CfFetchFail: a failed fetch is answered with a placeholder response,
\* which is stored as well.
CfFetchFail_Placeholder(h) ==
  /\ handlers[h].pc = "cf_fetch"
  /\ handlers' = [handlers EXCEPT ![h] =
       [@ EXCEPT !.pc = "done", !.net = "error",
                 !.result = Response(handlers[h].req.url, FALSE, PreBody),
                 !.put = Response(handlers[h].req.url, FALSE, PreBody)]]
  /\ UNCHANGED <<phase, caches, addAllResults, skipWaitingCalled, claimCalled, toDelete, deleted>>

\* fetch(e.request) of the miss branch rejects: nothing catches it.
CfFetchFail(h) ==
  /\ handlers[h].pc = "cf_fetch"
  /\ handlers' = [handlers EXCEPT ![h] = [@ EXCEPT !.pc = "done", !.net = "error", !.result = Rejected]]
  /\ UNCHANGED <<phase, caches, addAllResults, skipWaitingCalled, claimCalled, toDelete, deleted>>

\* Mutant of BackgroundPut: the copy is written into another generation.
BackgroundPut_WrongGeneration(h) ==
  /\ IsResponse(handlers[h].put)
  /\ caches' = CachePut(CacheStorageOpen(caches, "checkmate-gp-v0"), "checkmate-gp-v0",
                        handlers[h].req.url, handlers[h].put)
  /\ handlers' = [handlers EXCEPT ![h] = [@ EXCEPT !.put = Undefined, !.writes = @ + 1]]
  /\ UNCHANGED <<phase, addAllResults, skipWaitingCalled, claimCalled, toDelete, deleted>>

\* Mutant of BackgroundPut: the generation is deleted and opened again before the
\* write, so that it holds the latest copy only.
BackgroundPut_Trims(h) ==
  /\ IsResponse(handlers[h].put)
  /\ caches' = CachePut(CacheStorageOpen(CacheStorageDelete(caches, CACHE_NAME), CACHE_NAME),
                        CACHE_NAME, handlers[h].req.url, handlers[h].put)
  /\ handlers' = [handlers EXCEPT ![h] = [@ EXCEPT !.put = Undefined, !.writes = @ + 1]]
  /\ UNCHANGED <<phase, addAllResults, skipWaitingCalled, claimCalled, toDelete, deleted>>

\* caches.open(CACHE_NAME).then(cache => cache.put(e.request, clone)): the write
\* that was started without being awaited completes.
BackgroundPut(h) ==
  /\ IsResponse(handlers[h].put)
  /\ caches' = CachePut(CacheStorageOpen(caches, CACHE_NAME), CACHE_NAME,
                        handlers[h].req.url, handlers[h].put)
  /\ handlers' = [handlers EXCEPT ![h] = [@ EXCEPT !.put = Undefined, !.writes = @ + 1]]
  /\ UNCHANGED <<phase, addAllResults, skipWaitingCalled, claimCalled, toDelete, deleted>>

\* What the page that made the request gets: with no respondWith the browser handles
\* the request itself; a respondWith promise that rejects, or resolves with something
\* that is no response, fails the page's request with a network error.
ClientSees(hd) ==
  IF hd.pc # "done" THEN "pending"
  ELSE IF ~hd.responded THEN "passthrough"
  ELSE IF IsResponse(hd.result) THEN "response"
  ELSE "network_error"

\* ----------------------------------------------------------- specification
Next ==
  \/ InstallOpen
  \/ InstallAddAll
  \/ InstallSkipWaiting
  \/ ActivateKeys
  \/ \E k \in GenNames : ActivateDelete(k)
  \/ ActivateClaim
  \/ \E h \in Slots : Dispatch(h)
  \/ \E h \in Slots : NfFetchOk(h)
  \/ \E h \in Slots : NfFetchFail(h)
  \/ \E h \in Slots : NfMatch(h)
  \/ \E h \in Slots : CfMatch(h)
  \/ \E h \in Slots : CfFetchOk(h)
  \/ \E h \in Slots : CfFetchFail(h)
  \/ \E h \in Slots : BackgroundPut(h)

Spec == Init /\ [][Next]_vars

\* The event loop runs every callback whose promise has settled, and the platform
\* completes the I/O it was asked for: a cache write that was started is carried
\* out, the worker being kept alive until then (the listener does not extend the
\* event with waitUntil, so this is the platform's doing, not the code's).
FairSpec ==
  /\ Spec
  /\ \A h \in Slots : WF_vars(BackgroundPut(h))

\* ------------------------------------------------------------------ claims
\* The entries of the current generation.
Current == CacheEntries(caches, CACHE_NAME)

\* The entry of URL u in the current generation, Undefined when it has none.
CurrentEntry(u) == IF u \in DOMAIN Current THEN Current[u] ELSE Undefined

\* C1: once the install handler has completed successfully, every one of the six
\* manifest keys has an entry in the generation named CACHE_NAME, whatever cache
\* storage held before the install.
C1_InstallCachesManifest ==
  phase \in {"install_skipWaiting", "installed"} =>
    /\ CacheStorageHas(caches, CACHE_NAME)
    /\ Cardinality(ManifestKeys) = 6
    /\ \A k \in ManifestKeys : IsResponse(Current[k])

\* C1 witness: the install has completed over a storage in which the current
\* generation did not exist (it was created after two stale ones), so every
\* manifest entry is one this install stored.
C1_Witness ==
  /\ phase = "installed"
  /\ Len(caches) = 3
  /\ caches[3].name = CACHE_NAME
  /\ \A k \in ManifestKeys : IsResponse(Current[k]) /\ Current[k].body \in Bodies
  /\ ~IsResponse(Current[AppJsURL])

\* C2: install is all-or-nothing: when the fetch of any manifest asset failed, the
\* install has failed as a whole, skipWaiting was never called, and the agent
\* neither activates nor handles a fetch event.
C2_InstallAllOrNothing ==
  (\E i \in Assets : addAllResults[i] \in {"http_error", "network_error"}) =>
    /\ phase = "redundant"
    /\ ~skipWaitingCalled
    /\ ~claimCalled
    /\ \A h \in Slots : handlers[h].pc = "idle"

\* C2 witness: a single asset came back with an error status, all others were
\* fetched, and the install has failed.
C2_Witness ==
  /\ phase = "redundant"
  /\ addAllResults[4] = "http_error"
  /\ \A i \in Assets \ {4} : addAllResults[i] = "ok"

\* C3: when the activate handler completes, no generation other than CACHE_NAME
\* remains, and until then the handler leaves the generation CACHE_NAME in place
\* with its entries unchanged.
C3_ActivateKeepsOnlyCurrent ==
  [][/\ phase' = "activated" => CacheStorageKeys(caches') = <<CACHE_NAME>>
     /\ phase \in {"installed", "activating"} =>
          /\ CacheStorageHas(caches', CACHE_NAME)
          /\ CacheEntries(caches', CACHE_NAME) = CacheEntries(caches, CACHE_NAME)]_vars

\* C3 witness: both stale generations have been deleted, the deletes are all
\* settled, and only the current generation is left.
C3_Witness ==
  /\ phase = "activating"
  /\ toDelete = {}
  /\ deleted = StaleNames
  /\ CacheStorageKeys(caches) = <<CACHE_NAME>>
  /\ \A k \in ManifestKeys : IsResponse(Current[k])

\* C4: a fetch event whose request is not a GET, or whose origin is not the agent's
\* own, is not intercepted: respondWith is not called, and the handler makes no
\* network fetch, no cache read and no cache write.
C4_BypassDoesNothing ==
  \A h \in Slots :
    (/\ handlers[h].pc # "idle"
     /\ (handlers[h].req.method # "GET" \/ handlers[h].req.url.origin # SelfOrigin)) =>
      /\ handlers[h].pc = "done"
      /\ ~handlers[h].responded
      /\ handlers[h].result = NotIntercepted
      /\ handlers[h].net = "none"
      /\ handlers[h].netCalls = 0
      /\ handlers[h].reads = 0
      /\ handlers[h].writes = 0
      /\ handlers[h].put = Undefined

\* C4 witness: a POST to the agent's own origin and a GET to a foreign origin have
\* both been dispatched and passed through.
C4_Witness ==
  /\ handlers[1].req = Request("POST", IndexURL, "cors")
  /\ handlers[2].req = Request("GET", ApiURL, "cors")
  /\ ClientSees(handlers[1]) = "passthrough"
  /\ ClientSees(handlers[2]) = "passthrough"

\* A same-origin GET, the only kind of request the agent handles.
SameOriginGet(req) == req.method = "GET" /\ req.url.origin = SelfOrigin

\* A same-origin GET that is a navigation or whose path ends with .html.
IsHtmlRequest(req) ==
  /\ SameOriginGet(req)
  /\ (req.mode = "navigate" \/ req.url.path[Len(req.url.path)] = ".html")

\* Every other same-origin GET.
IsStaticRequest(req) == SameOriginGet(req) /\ ~IsHtmlRequest(req)

\* Handler h settles the promise it gave to respondWith in this step.
Settles(h) == handlers[h].pc # "done" /\ handlers'[h].pc = "done"

\* The response the handler got from the network is the event's response, and its
\* copy is being written, or has been written, by the handler's one cache write.
ServesLive(hd) ==
  /\ hd.pc = "done"
  /\ hd.result \in NetworkResponses(hd.req.url)
  /\ hd.netCalls = 1
  /\ \/ hd.put = hd.result /\ hd.writes = 0
     \/ hd.put = Undefined /\ hd.writes = 1

\* C5: a navigation or .html request goes to the network first, before any cache
\* read and whether or not the key is cached; when the network answers, that answer
\* is the event's response, and from the moment it is returned the entry of the
\* request's key in the current generation eventually equals it (a later write of
\* another handler may replace it again: last write wins).
C5_NetworkFirstLive ==
  /\ [](\A h \in Slots :
          (IsHtmlRequest(handlers[h].req) /\ handlers[h].pc # "idle") =>
            /\ handlers[h].netCalls = 1
            /\ handlers[h].net = "pending" => handlers[h].reads = 0
            /\ handlers[h].net = "response" =>
                 ServesLive(handlers[h]) /\ handlers[h].reads = 0)
  /\ \A h \in Slots :
       (IsHtmlRequest(handlers[h].req) /\ handlers[h].net = "response"
          /\ handlers[h].writes = 0)
         ~> (CurrentEntry(handlers[h].req.url) = handlers[h].result)

\* C5 witness: /index.html was cached with one body, the network answered with
\* another, the handler returned the network's answer and the entry now equals it.
C5_Witness ==
  /\ handlers[1].req = Request("GET", IndexURL, "cors")
  /\ handlers[1].net = "response"
  /\ handlers[1].result = Response(IndexURL, TRUE, 2)
  /\ handlers[1].writes = 1
  /\ Current[IndexURL] = handlers[1].result
  /\ Current[RootURL].body = 1

\* C6: when the network fetch of a navigation or .html request has failed and the
\* request's key has an entry, the event's response is that entry, and the handler
\* leaves the cache as it is.
C6_NetworkFirstFallback ==
  [][\A h \in Slots :
       (/\ IsHtmlRequest(handlers[h].req)
        /\ handlers[h].net = "error"
        /\ Settles(h)
        /\ IsResponse(CurrentEntry(handlers[h].req.url))) =>
         /\ handlers'[h].result = CurrentEntry(handlers[h].req.url)
         /\ ClientSees(handlers'[h]) = "response"
         /\ caches' = caches
         /\ handlers'[h].put = Undefined
         /\ handlers'[h].writes = 0
         /\ handlers'[h].netCalls = 1]_vars

\* C6 witness: the fetch of /index.html failed and the handler answered with the
\* cached entry.
C6_Witness ==
  /\ handlers[1].req = Request("GET", IndexURL, "cors")
  /\ handlers[1].pc = "done"
  /\ handlers[1].net = "error"
  /\ handlers[1].result = Current[IndexURL]
  /\ IsResponse(handlers[1].result)
  /\ handlers[1].writes = 0

\* C7: when the network fetch of a navigation or .html request has failed and the
\* request's key has no entry, the event gets no response: the page's request
\* fails, the handler does not fetch again and writes nothing.
C7_NetworkFirstUnavailable ==
  [][\A h \in Slots :
       (/\ IsHtmlRequest(handlers[h].req)
        /\ handlers[h].net = "error"
        /\ Settles(h)
        /\ ~IsResponse(CurrentEntry(handlers[h].req.url))) =>
         /\ ~IsResponse(handlers'[h].result)
         /\ ClientSees(handlers'[h]) = "network_error"
         /\ caches' = caches
         /\ handlers'[h].put = Undefined
         /\ handlers'[h].writes = 0
         /\ handlers'[h].netCalls = 1]_vars

\* C7 witness: /about.html is not cached, its fetch failed, and the page's request
\* has failed.
C7_Witness ==
  /\ handlers[1].req = Request("GET", AboutURL, "cors")
  /\ handlers[1].net = "error"
  /\ ClientSees(handlers[1]) = "network_error"
  /\ ~IsResponse(Current[AboutURL])

\* C8: a static request whose key has an entry is answered with that entry, with no
\* network call and no change of the cache, so that the entry it returned is still
\* the entry a repeated request finds.
C8_CacheFirstHit ==
  [][\A h \in Slots :
       (/\ IsStaticRequest(handlers[h].req)
        /\ handlers[h].pc = "cf_match"
        /\ handlers'[h] # handlers[h]
        /\ IsResponse(CurrentEntry(handlers[h].req.url))) =>
         /\ handlers'[h].pc = "done"
         /\ handlers'[h].result = CurrentEntry(handlers[h].req.url)
         /\ handlers'[h].netCalls = 0
         /\ handlers'[h].net = "none"
         /\ handlers'[h].put = Undefined
         /\ caches' = caches
         /\ CacheEntries(caches', CACHE_NAME)[handlers[h].req.url] = handlers'[h].result]_vars

\* C8 witness: the icon was requested twice, both requests were answered from the
\* cache with the same entry, and neither went to the network.
C8_Witness ==
  /\ \A h \in {1, 2} :
       /\ handlers[h].req = Request("GET", IconURL, "no-cors")
       /\ handlers[h].pc = "done"
       /\ handlers[h].netCalls = 0
       /\ handlers[h].result = Current[IconURL]
  /\ IsResponse(Current[IconURL])

\* C9: a static request whose key has no entry goes to the network; when the network
\* answers, that answer is the event's response, and from the moment it is returned
\* the entry of the request's key in the current generation eventually equals it.
C9_CacheFirstMiss ==
  /\ [][\A h \in Slots :
          (/\ IsStaticRequest(handlers[h].req)
           /\ handlers[h].pc = "cf_match"
           /\ handlers'[h] # handlers[h]
           /\ ~IsResponse(CurrentEntry(handlers[h].req.url))) =>
            /\ handlers'[h].pc = "cf_fetch"
            /\ handlers'[h].net = "pending"
            /\ handlers'[h].netCalls = 1]_vars
  /\ [](\A h \in Slots :
          (IsStaticRequest(handlers[h].req) /\ handlers[h].net = "response") =>
            ServesLive(handlers[h]))
  /\ \A h \in Slots :
       (IsStaticRequest(handlers[h].req) /\ handlers[h].net = "response"
          /\ handlers[h].writes = 0)
         ~> (CurrentEntry(handlers[h].req.url) = handlers[h].result)

\* C9 witness: /app.js was not cached, the network answered, the handler returned
\* the answer and the entry now equals it.
C9_Witness ==
  /\ handlers[1].req = Request("GET", AppJsURL, "no-cors")
  /\ handlers[1].net = "response"
  /\ handlers[1].reads = 1
  /\ handlers[1].writes = 1
  /\ handlers[1].result \in NetworkResponses(AppJsURL)
  /\ Current[AppJsURL] = handlers[1].result

\* C10: when a static request missed the cache and its network fetch has failed,
\* the event gets no response (the rejection reaches the page) and the handler
\* writes nothing to the cache.
C10_CacheFirstUnavailable ==
  \A h \in Slots :
    (IsStaticRequest(handlers[h].req) /\ handlers[h].net = "error") =>
      /\ handlers[h].pc = "done"
      /\ handlers[h].result = Rejected
      /\ ClientSees(handlers[h]) = "network_error"
      /\ handlers[h].put = Undefined
      /\ handlers[h].writes = 0
      /\ handlers[h].netCalls = 1
      /\ handlers[h].reads = 1

\* C10 witness: /app.js is not cached, its fetch failed, and the page's request has
\* failed with nothing stored.
C10_Witness ==
  /\ handlers[1].req = Request("GET", AppJsURL, "no-cors")
  /\ handlers[1].net = "error"
  /\ ClientSees(handlers[1]) = "network_error"
  /\ ~IsResponse(Current[AppJsURL])
  /\ handlers[2].pc = "idle"

\* The keys that have an entry in a cache.
KeySet(entries) == {k \in Keys : IsResponse(entries[k])}

\* C11: install is idempotent on the key set: a successful cache.addAll of the
\* manifest into a generation CACHE_NAME that already holds every manifest key
\* leaves the generation with the key set it had (no key added, none removed), and
\* into any generation it adds the manifest keys and nothing else.
C11_InstallIdempotent ==
  [][(phase = "install_addAll" /\ phase' = "install_skipWaiting") =>
       /\ KeySet(CacheEntries(caches', CACHE_NAME))
            = KeySet(Current) \cup ManifestKeys
       /\ ManifestKeys \subseteq KeySet(Current) =>
            KeySet(CacheEntries(caches', CACHE_NAME)) = KeySet(Current)
       /\ CacheStorageKeys(caches') = CacheStorageKeys(caches)]_vars

\* C11 witness: the install runs over a generation that an earlier install of the
\* same manifest had filled: cache.addAll is about to store the manifest again.
C11_Witness ==
  /\ phase = "install_addAll"
  /\ KeySet(Current) = ManifestKeys
  /\ \A k \in ManifestKeys : Current[k].body = PreBody

\* C12: skipWaiting is called, and the install event completes, only after
\* cache.addAll has fetched every asset and stored it in the current generation:
\* never before the store, and never on the failure path.
C12_InstallOrdering ==
  /\ (skipWaitingCalled \/ phase \in {"installed", "activating", "activated"}) =>
       /\ \A i \in Assets : addAllResults[i] = "ok"
       /\ ManifestKeys \subseteq KeySet(Current)
  /\ phase \in {"install_open", "install_addAll", "install_skipWaiting", "redundant"} =>
       ~skipWaitingCalled
  /\ phase \in {"installed", "activating", "activated"} => skipWaitingCalled

\* C12 witness: skipWaiting has been called and the install event has completed,
\* with every asset fetched and stored.
C12_Witness ==
  /\ skipWaitingCalled
  /\ phase = "installed"
  /\ \A i \in Assets : addAllResults[i] = "ok"
  /\ ManifestKeys \subseteq KeySet(Current)

\* C13: clients.claim is called, and the activate event completes, only after
\* every caches.delete of a stale generation has settled: at the moment of the
\* claim no generation other than the current one exists.
C13_ActivateOrdering ==
  [][/\ (claimCalled' /\ ~claimCalled) =>
          /\ toDelete = {}
          /\ CacheStorageKeys(caches) = <<CACHE_NAME>>
          /\ CacheStorageKeys(caches') = <<CACHE_NAME>>
     /\ (phase' = "activated" /\ phase # "activated") => (claimCalled' /\ ~claimCalled)
     /\ phase' \in {"install_open", "install_addAll", "install_skipWaiting",
                    "installed", "activating", "redundant"} => ~claimCalled']_vars

\* C13 witness: the one stale generation there was has been deleted, no delete is
\* in flight, and the claim is the next step of the handler.
C13_Witness ==
  /\ phase = "activating"
  /\ ~claimCalled
  /\ toDelete = {}
  /\ deleted = {"checkmate-gp-v0"}
  /\ CacheStorageKeys(caches) = <<CACHE_NAME>>

\* C14: the cache write is not awaited: the step that returns a network response
\* leaves the cache as it is, with the write still to come, and a static request
\* for the same key that is dispatched after that return and looks the key up
\* before the write does not find the response: it misses and fetches again.
C14_FireAndForgetRace ==
  [][\A h \in Slots :
       /\ (Settles(h) /\ handlers'[h].net = "response") =>
            /\ ClientSees(handlers'[h]) = "response"
            /\ caches' = caches
            /\ handlers'[h].put = handlers'[h].result
            /\ handlers'[h].writes = 0
       /\ (/\ handlers[h].behind
           /\ handlers[h].pc = "cf_match"
           /\ handlers'[h] # handlers[h]
           /\ ~IsResponse(CurrentEntry(handlers[h].req.url))) =>
            /\ handlers'[h].pc = "cf_fetch"
            /\ handlers'[h].netCalls = 1]_vars

\* C14 witness: /app.js was fetched and returned to the page while its write is
\* still pending; a second request for /app.js, dispatched after that return,
\* has missed the cache and gone to the network again.
C14_Witness ==
  /\ handlers[1].req = Request("GET", AppJsURL, "no-cors")
  /\ ClientSees(handlers[1]) = "response"
  /\ handlers[1].put = handlers[1].result
  /\ handlers[1].writes = 0
  /\ ~IsResponse(Current[AppJsURL])
  /\ handlers[2].req = Request("GET", AppJsURL, "no-cors")
  /\ handlers[2].behind
  /\ handlers[2].pc = "cf_fetch"
  /\ handlers[2].netCalls = 1

\* The entries of the current generation after the step.
CurrentNext == CacheEntries(caches', CACHE_NAME)

\* The keys whose entry in the current generation the step changes.
ChangedKeys ==
  LET now == Current
      next == CurrentNext
  IN  {k \in Keys : next[k] # now[k]}

\* Handler h carries out its cache write in this step.
Writes(h) == handlers'[h].writes = handlers[h].writes + 1

\* C15: from the end of a successful install on, through activation and any
\* interleaving of fetch handlers, every manifest key has an entry in the current
\* generation, and no step of the agent removes an entry from that generation.
C15_ManifestStaysCached ==
  [][LET next == CurrentNext IN
       /\ phase' \in {"installed", "activating", "activated"} =>
            \A k \in ManifestKeys : IsResponse(next[k])
       /\ caches' # caches => KeySet(Current) \subseteq KeySet(next)]_vars

\* C15 witness: the agent is active, two fetch handlers have written to the current
\* generation, one of them over a manifest entry, and the manifest is all there.
C15_Witness ==
  /\ phase = "activated"
  /\ handlers[1].req.url = IndexURL /\ handlers[1].writes = 1
  /\ handlers[2].req.url = AppJsURL /\ handlers[2].writes = 1
  /\ ManifestKeys \subseteq KeySet(Current)
  /\ AppJsURL \in KeySet(Current)

\* C16: while fetch events are handled, a step changes at most one entry of the
\* current generation, the entry of the request key of the handler that writes in
\* that step; no generation is created or deleted and no other generation changes,
\* also with several handlers in flight.
C16_FetchFrame ==
  [][(phase = "activated" /\ caches' # caches) =>
       /\ CacheStorageKeys(caches') = CacheStorageKeys(caches)
       /\ \A g \in GenNames \ {CACHE_NAME} :
            CacheEntries(caches', g) = CacheEntries(caches, g)
       /\ Cardinality(ChangedKeys) <= 1
       /\ \A k \in ChangedKeys :
            \E h \in Slots : handlers[h].req.url = k /\ Writes(h)
       /\ \A h \in Slots :
            Writes(h) => ChangedKeys \subseteq {handlers[h].req.url}]_vars

\* C16 witness: two handlers are in flight at once; the one for /index.html has
\* written its entry while the write of the one for /app.js is still pending, and
\* the entries of the other keys are the ones the install stored.
C16_Witness ==
  /\ handlers[1].req.url = IndexURL
  /\ handlers[1].writes = 1
  /\ Current[IndexURL].body = 2
  /\ handlers[2].req.url = AppJsURL
  /\ IsResponse(handlers[2].put)
  /\ ~IsResponse(Current[AppJsURL])
  /\ \A k \in ManifestKeys \ {IndexURL} : Current[k] = Response(k, TRUE, 1)
  /\ CacheStorageKeys(caches) = <<CACHE_NAME>>

\* C17: whatever the agent stores in the current generation under key k is a
\* response the network gave it for k: at install the ok response of the asset that
\* resolves to k, in fetch handling the response that the writing handler received
\* for its request for k; so every entry carries the URL of its key.
C17_Provenance ==
  /\ [][caches' # caches => \A k \in ChangedKeys :
          \/ /\ phase = "install_addAll"
             /\ k \in ManifestKeys
             /\ \A i \in Assets : addAllResults'[i] = "ok"
             /\ CurrentNext[k] \in {r \in NetworkResponses(k) : r.ok}
          \/ \E h \in Slots :
               /\ Writes(h)
               /\ handlers[h].req.url = k
               /\ handlers[h].net = "response"
               /\ handlers[h].result \in NetworkResponses(k)
               /\ CurrentNext[k] = handlers[h].result]_vars
  /\ [](\A k \in KeySet(Current) : Current[k].url = k)

\* C17 witness: /about.html, which the manifest does not list, has an entry: the
\* response that the network gave the handler that asked for it.
C17_Witness ==
  /\ handlers[1].req = Request("GET", AboutURL, "cors")
  /\ handlers[1].net = "response"
  /\ handlers[1].writes = 1
  /\ Current[AboutURL] = handlers[1].result
  /\ Current[AboutURL].url = AboutURL
  /\ \A k \in ManifestKeys : Current[k].url = k /\ Current[k].body \in Bodies

\* The response of handler hd's event came out of the cache, not from the network.
ServedFromCache(hd) ==
  hd.pc = "done" /\ hd.responded /\ hd.net # "response" /\ IsResponse(hd.result)

\* C18, as claimed: fetch handling stores ok responses only, so that no entry of
\* the current generation, and no response served from the cache, carries an error
\* status.
C18_OnlyOkStored ==
  /\ \A k \in KeySet(Current) : Current[k].ok
  /\ \A h \in Slots : ServedFromCache(handlers[h]) => handlers[h].result.ok

\* C18, amended: fetch handling stores every response the network gives it,
\* whatever its status: the handler of a resolved fetch has its write pending or
\* done, for an error status as for an ok one, and a handler whose fetch did not
\* resolve writes nothing; only the install stores ok responses alone.
C18_AnyStatusStored ==
  /\ \A h \in Slots :
       /\ handlers[h].net = "response" =>
            \/ handlers[h].put = handlers[h].result /\ handlers[h].writes = 0
            \/ handlers[h].put = Undefined /\ handlers[h].writes = 1
       /\ handlers[h].net # "response" =>
            handlers[h].put = Undefined /\ handlers[h].writes = 0
  /\ phase \in {"install_skipWaiting", "installed", "activating"} =>
       \A k \in ManifestKeys : Current[k].ok

\* C18 witness: the network answered /app.js with an error status; the handler
\* stored it, and the next request for /app.js was served that entry from the cache.
C18_Witness ==
  /\ handlers[1].req.url = AppJsURL
  /\ handlers[1].net = "response"
  /\ ~handlers[1].result.ok
  /\ handlers[1].writes = 1
  /\ handlers[2].req.url = AppJsURL
  /\ ServedFromCache(handlers[2])
  /\ handlers[2].result = handlers[1].result
  /\ handlers[2].netCalls = 0

\* C19: a response that a handler serves from the cache, on a cache-first hit or on
\* the fallback of the network-first branch, is the entry of the request key in the
\* current generation; while fetch events are handled no other generation exists
\* whose entry caches.match could return instead.
C19_ServedFromCurrent ==
  /\ [][\A h \in Slots :
          (Settles(h) /\ ServedFromCache(handlers'[h])) =>
            /\ IsResponse(CurrentEntry(handlers[h].req.url))
            /\ handlers'[h].result = CurrentEntry(handlers[h].req.url)]_vars
  /\ []((\E h \in Slots : handlers[h].pc # "idle") =>
          CacheStorageKeys(caches) = <<CACHE_NAME>>)

\* C19 witness: an icon was served on a cache-first hit and /index.html on the
\* fallback after a failed fetch, each the entry of the current generation.
C19_Witness ==
  /\ handlers[1].req.url = IconURL
  /\ ServedFromCache(handlers[1])
  /\ handlers[1].netCalls = 0
  /\ handlers[1].result = Current[IconURL]
  /\ handlers[2].req.url = IndexURL
  /\ ServedFromCache(handlers[2])
  /\ handlers[2].net = "error"
  /\ handlers[2].result = Current[IndexURL]

====
